---- MODULE Spec2Model ----
(***************************************************************************)
(* Query routing and retrieval orchestration of the RAG assistant:         *)
(* backend/core/router.py, backend/core/orchestrator.py and the            *)
(* collaborators they call (llm_runner, llm_service, query_engine,         *)
(* summarizer, api/routes).  One request is followed from the entry point  *)
(* (handle_prompt, or prompt_endpoint -> handle_prompt_async) to its       *)
(* result or its exception.                                                *)
(*                                                                         *)
(* Confidence values are kept in hundredths (0.1 is 10, 0.9 is 90).        *)
(***************************************************************************)
EXTENDS Integers, Sequences, FiniteSets, TLC

VARIABLES
    mode,        \* "sync": handle_prompt; "async": prompt_endpoint -> handle_prompt_async
    useGroq,     \* USE_GROQ_ROUTER and GROQ_API_KEY (settings.py)
    groqOut,     \* what the remote classification backend does when called
    ollamaOut,   \* what the local classification backend does when called
    genOut,      \* what the generation backend does when called
    csDocs,      \* contents of the cs_docs collection, nearest first
    generalDocs, \* contents of the general_docs collection, nearest first
    idxFail,     \* collections whose query raises
    pc,          \* position of the request in handle_prompt / handle_prompt_async
    pcRoute,     \* the routing unit: "idle", "running", "done", "raised"
    pcPrefetch,  \* the speculative retrieval unit: "idle", "running", "done"
    route,       \* the RouteDecision once route_query returned
    prefetched,  \* the result of _prefetch_hits_for_message
    state,       \* the terminal dispatch state selected
    handlers,    \* the handler functions that were started
    result,      \* the dict handle_prompt returned
    error,       \* the exception that left handle_prompt / route_query
    http,        \* what prompt_endpoint answered
    routeExc,    \* the exception route_query raised in its worker thread
    prefetchExc, \* the exception _prefetch_hits_for_message raised in its worker thread
    calls,       \* the external calls made so far, in order
    unitCall,    \* a direct call of one function of the core: its arguments
    unitRet,     \* what that call returned
    client,      \* vector_store._client: 0 for None, or the client object it refers to
    built,       \* the number of client objects constructed in the process
    threads,     \* the position of each thread in query_collection / get_client
    used,        \* the client objects queries were issued on
    handled,     \* the requests in flight whose handler has issued its query
    chroma       \* the constructors of the installed chromadb that succeed

vars == <<mode, useGroq, groqOut, ollamaOut, genOut, csDocs, generalDocs, idxFail,
          pc, pcRoute, pcPrefetch, route, prefetched, state, handlers, result,
          error, http, routeExc, prefetchExc, calls, unitCall, unitRet,
          client, built, threads, used, handled, chroma>>

envVars == <<mode, useGroq, groqOut, ollamaOut, genOut, csDocs, generalDocs, idxFail>>

unitVars == <<unitCall, unitRet>>

clientVars == <<client, built, threads, used, handled, chroma>>

-----------------------------------------------------------------------------
(* Bounds of the model *)

\* largest number of documents in a collection
MaxDocs == 4

\* longest raw classification response, in tokens
MaxRawLen == 4

\* longest hit list handed to a function called directly
MaxHits == 3

\* longest chunk list handed to a function called directly
MaxChunks == 3

\* largest number of requests in flight in the process
MaxRequests == 2

(* Program constants *)

\* orchestrator.py: route.confidence < 0.1
LowConfidence == 10

\* router.py: float(raw_json.get("confidence", 0.9))
DefaultConfidence == 90

\* router.py: "confidence": 0.1 of the parse-error fallback
FallbackConfidence == 10

\* orchestrator.py: query_sources(rag_source, message, k=3)
HandlerK == 3

\* orchestrator.py: query_sources("cs", message, k=5)
PrefetchK == 5

\* orchestrator.py: all_hits[:5]
TotalCap == 5

\* Python's None
None == "<None>"

\* the user's message
Message == "msg"

-----------------------------------------------------------------------------
(* Python helpers *)

\* dict.get(key, default)
Get(d, key, default) == IF key \in DOMAIN d THEN d[key] ELSE default

\* x or y, for strings and None
OrStr(x, y) == IF x = None \/ x = "" THEN y ELSE x

\* s[:n] for n >= 0
Take(s, n) == IF Len(s) <= n THEN s ELSE SubSeq(s, 1, n)

\* s[start:stop] with Python's index rules; start and stop are 0-based and may
\* be negative
PySlice(s, start, stop) ==
    LET n  == Len(s)
        norm(i) == IF i < 0 THEN (IF i + n < 0 THEN 0 ELSE i + n)
                   ELSE (IF i > n THEN n ELSE i)
        a == norm(start)
        b == norm(stop)
    IN  IF a >= b THEN <<>> ELSE SubSeq(s, a + 1, b)

-----------------------------------------------------------------------------
(* Raw classification responses are sequences of tokens: an opening brace, a
   closing brace, a stretch of text that is no JSON, a JSON list, and the
   key/value body of an object. *)

LBrace == [t |-> "{"]
RBrace == [t |-> "}"]
Prose == [t |-> "text"]
JsonList == [t |-> "[]"]
Body(d) == [t |-> "body", d |-> d]

\* str.find("{"): the 0-based index of the first opening brace, or -1
Find(raw, tok) ==
    IF \E i \in 1..Len(raw) : raw[i] = tok
    THEN (CHOOSE i \in 1..Len(raw) : raw[i] = tok /\ \A j \in 1..(i-1) : raw[j] # tok) - 1
    ELSE -1

\* str.rfind("}"): the 0-based index of the last closing brace, or -1
RFind(raw, tok) ==
    IF \E i \in 1..Len(raw) : raw[i] = tok
    THEN (CHOOSE i \in 1..Len(raw) : raw[i] = tok /\ \A j \in (i+1)..Len(raw) : raw[j] # tok) - 1
    ELSE -1

\* nesting depth after the first i tokens
Depth(s, i) ==
    Cardinality({j \in 1..i : s[j] = LBrace}) - Cardinality({j \in 1..i : s[j] = RBrace})

\* the positions of the top-level bodies of an object
TopBodies(s) == {i \in 1..Len(s) : s[i].t = "body" /\ Depth(s, i) = 1}

\* whether json.loads(s) succeeds with an object: one balanced brace pair
\* around bodies and nested objects
IsJsonObject(s) ==
    /\ Len(s) >= 2
    /\ s[1] = LBrace
    /\ s[Len(s)] = RBrace
    /\ \A i \in 1..Len(s) : s[i] \in {LBrace, RBrace} \/ s[i].t = "body"
    /\ \A i \in 1..(Len(s) - 1) : Depth(s, i) > 0
    /\ Cardinality(TopBodies(s)) <= 1

\* the dict json.loads(s) returns for an object: its top-level body
EmptyDict == [k \in {} |-> None]
DictAt(s, at) == IF at = {} THEN EmptyDict ELSE s[CHOOSE i \in at : TRUE].d
JsonDict(s) == DictAt(s, TopBodies(s))

\* json.loads: [ok, isDict, dict]
JsonLoads(s) ==
    IF IsJsonObject(s) THEN [ok |-> TRUE, isDict |-> TRUE, dict |-> JsonDict(s)]
    ELSE IF s = <<JsonList>> THEN [ok |-> TRUE, isDict |-> FALSE, dict |-> EmptyDict]
    ELSE [ok |-> FALSE, isDict |-> FALSE, dict |-> EmptyDict]

-----------------------------------------------------------------------------
(* JSON values of the fields that are no strings *)

\* JSON null where a list, an object or a number is expected
NullV == [null |-> TRUE]

\* a JSON list
ListV(s) == [list |-> s]

\* a JSON number, in hundredths
NumV(n) == [num |-> n]

\* a JSON string where a number is expected and that float() rejects
BadNumV == [str |-> "high"]

NoException == "none"

\* settings.py
ROUTER_MODEL == "qwen2.5:1.5b"
DEFAULT_QUERY_MODEL == "qwen2.5:3b"
DEFAULT_BATCH_MODEL == "qwen2.5:3b"
DEFAULT_FINAL_MODEL == "qwen2.5:1.5b"

\* config.py
CS_COLLECTION_NAME == "cs_docs"
GENERAL_COLLECTION_NAME == "general_docs"

-----------------------------------------------------------------------------
(* llm_runner.ask_ollama: the exception it raises, or the "response" field *)

AskOllamaException(out) ==
    CASE out.kind = "conn_error"    -> "RuntimeError: Ollama connection error"
      [] out.kind = "status_error"  -> "RuntimeError: Ollama error (500)"
      [] out.kind = "bad_json"      -> "JSONDecodeError"
      [] out.kind = "missing_field" -> "RuntimeError: Ollama response missing 'response' field"
      [] OTHER                      -> NoException

-----------------------------------------------------------------------------
(* router.py *)

\* the dict _safe_parse_json returns from its except branch
FallbackDict ==
    [operation |-> "qa",
     primary_source |-> "all",
     secondary_sources |-> ListV(<<>>),
     arguments |-> EmptyDict,
     reasoning |-> "Fallback routing due to parse error.",
     search_strategy |-> "Search all sources.",
     confidence |-> NumV(FallbackConfidence)]

\* raw[start : end + 1] of _safe_parse_json
Snippet(raw) == PySlice(raw, Find(raw, LBrace), RFind(raw, RBrace) + 1)

\* return json.loads(snippet), or the except branch
ParsedOrFallback(parsed) == IF parsed.ok THEN parsed.dict ELSE FallbackDict

\* _safe_parse_json: out is the "response" field ask_ollama returned, a text
\* or null (whose .find raises inside the try)
SafeParseJson(out) ==
    IF out.kind = "text" THEN ParsedOrFallback(JsonLoads(Snippet(out.raw)))
    ELSE FallbackDict

OllamaRouteCall == <<[call |-> "ask_ollama", model |-> ROUTER_MODEL]>>
GroqRouteCall == <<[call |-> "groq", model |-> "llama3-70b-8192"]>>

Raised(exc, made) == [exc |-> exc, isDict |-> FALSE, dict |-> EmptyDict, calls |-> made]

\* _route_with_ollama after _safe_parse_json:
\* data.get("reasoning", "").startswith("Fallback routing"), return data
LogAndReturn(data) ==
    IF Get(data, "reasoning", "") = None
    THEN Raised("AttributeError", OllamaRouteCall)
    ELSE [exc |-> NoException, isDict |-> TRUE, dict |-> data, calls |-> OllamaRouteCall]

\* _route_with_ollama: [exc, isDict, dict, calls]
RouteWithOllama(out) ==
    IF AskOllamaException(out) # NoException
    THEN Raised(AskOllamaException(out), OllamaRouteCall)
    ELSE LogAndReturn(SafeParseJson(out))

\* the two "return _route_with_ollama(message)" of _route_with_groq
GroqFallsBack(gout) ==
    \/ gout.kind \in {"status_error", "no_content"}
    \/ gout.kind = "content" /\ ~JsonLoads(gout.raw).ok

\* return parsed
GroqParsed(parsed) ==
    [exc |-> NoException, isDict |-> parsed.isDict, dict |-> parsed.dict,
     calls |-> GroqRouteCall]

AfterGroq(r) == [r EXCEPT !.calls = GroqRouteCall \o @]

\* _route_with_groq: [exc, isDict, dict, calls]
RouteWithGroq(gout, oout) ==
    CASE gout.kind = "conn_error" -> Raised("ConnectionError", GroqRouteCall)
      [] gout.kind = "bad_json"   -> Raised("JSONDecodeError", GroqRouteCall)
      [] GroqFallsBack(gout)      -> AfterGroq(RouteWithOllama(oout))
      [] OTHER                    -> GroqParsed(JsonLoads(gout.raw))

\* float(x) of route_query: the exception it raises
FloatException(v) ==
    IF v = NullV THEN "TypeError"
    ELSE IF v = BadNumV THEN "ValueError"
    ELSE NoException

\* x or [] for secondary_sources
OrList(v) == IF v = NullV THEN <<>> ELSE v.list

\* x or {} for arguments
OrDict(v) == IF v = NullV THEN EmptyDict ELSE v

NoRoute == [exc |-> "unset"]

\* the RouteDecision route_query builds from the parsed dict
BuildDecision(d) ==
    [operation |-> Get(d, "operation", "qa"),
     primary_source |-> Get(d, "primary_source", "notes"),
     secondary_sources |-> OrList(Get(d, "secondary_sources", ListV(<<>>))),
     arguments |-> OrDict(Get(d, "arguments", EmptyDict)),
     reasoning |-> Get(d, "reasoning", ""),
     search_strategy |-> Get(d, "search_strategy", ""),
     confidence |-> Get(d, "confidence", NumV(DefaultConfidence)).num]

\* route_query from the parsed JSON on: [exc, decision, calls]
ConstructDecision(r) ==
    IF r.exc # NoException
    THEN [exc |-> r.exc, decision |-> NoRoute, calls |-> r.calls]
    ELSE IF ~r.isDict
    THEN \* list.get
         [exc |-> "AttributeError", decision |-> NoRoute, calls |-> r.calls]
    ELSE IF FloatException(Get(r.dict, "confidence", NumV(DefaultConfidence))) # NoException
    THEN [exc |-> FloatException(Get(r.dict, "confidence", NumV(DefaultConfidence))),
          decision |-> NoRoute, calls |-> r.calls]
    ELSE [exc |-> NoException, decision |-> BuildDecision(r.dict), calls |-> r.calls]

\* route_query: [exc, decision, calls]
RouteQuery(groq, gout, oout) ==
    ConstructDecision(IF groq THEN RouteWithGroq(gout, oout) ELSE RouteWithOllama(oout))

-----------------------------------------------------------------------------
(* Texts: a text has a core and may carry surrounding white space; strip()
   removes the white space, and a text with an empty core is blank. *)

Text(core, pad) == [core |-> core, pad |-> pad]

\* str.strip()
Strip(txt) == [txt EXCEPT !.pad = 0]

\* len(str)
TextLen(txt) == txt.core + txt.pad

-----------------------------------------------------------------------------
(* The vector index: a collection is the list of its documents, nearest to
   the question first, as the index returns them. *)

\* the text of the i-th document of a collection
DocText(i) == Text(1200, i % 2)

\* the first n documents of the cs collection (distances 2, 4, 6, ...)
CsCollection(n) == [i \in 1..n |-> [id |-> i, score |-> 2 * i, text |-> DocText(i)]]

\* the first n documents of the general collection (distances 1, 3, 5, ...)
GeneralCollection(n) == [i \in 1..n |-> [id |-> 100 + i, score |-> 2 * i - 1, text |-> DocText(i)]]

\* the documents a collection holds
Collection(name) == IF name = CS_COLLECTION_NAME THEN csDocs ELSE generalDocs

\* a failed query attempted a second time
QueryCollectionRetrying(name, k) ==
    LET call == <<[call |-> "query", collection |-> name, k |-> k]>>
    IN  IF name \in idxFail
        THEN [exc |-> "ChromaError", docs |-> <<>>, calls |-> call \o call]
        ELSE [exc |-> NoException, docs |-> Take(Collection(name), k), calls |-> call]

\* vector_store.query_collection: [exc, docs, calls]
QueryCollection(name, k) ==
    LET call == <<[call |-> "query", collection |-> name, k |-> k]>>
    IN  IF name \in idxFail
        THEN [exc |-> "ChromaError", docs |-> <<>>, calls |-> call]
        ELSE [exc |-> NoException, docs |-> Take(Collection(name), k), calls |-> call]

\* the hit dicts query_sources builds from one collection's result
HitsOf(label, docs) ==
    [i \in 1..Len(docs) |->
        [collection |-> label, id |-> docs[i].id, score |-> docs[i].score,
         text |-> docs[i].text]]

\* the place of hit i after list.sort(key=score): stable, ascending
Rank(hits, i) ==
    1 + Cardinality({j \in 1..Len(hits) :
                        \/ hits[j].score < hits[i].score
                        \/ hits[j].score = hits[i].score /\ j < i})

\* list.sort(key=score)
SortByScore(hits) ==
    [p \in 1..Len(hits) |-> hits[CHOOSE i \in 1..Len(hits) : Rank(hits, i) = p]]

\* query_engine.query_sources once the collections answered: [exc, hits, calls]
Flatten(wantGen, wantCs, gen, cs) ==
    IF wantGen /\ gen.exc # NoException
    THEN [exc |-> gen.exc, hits |-> <<>>, calls |-> gen.calls]
    ELSE IF wantCs /\ cs.exc # NoException
    THEN [exc |-> cs.exc, hits |-> <<>>,
          calls |-> (IF wantGen THEN gen.calls ELSE <<>>) \o cs.calls]
    ELSE [exc |-> NoException,
          hits |-> SortByScore((IF wantGen THEN HitsOf("general", gen.docs) ELSE <<>>)
                               \o (IF wantCs THEN HitsOf("cs", cs.docs) ELSE <<>>)),
          calls |-> (IF wantGen THEN gen.calls ELSE <<>>)
                    \o (IF wantCs THEN cs.calls ELSE <<>>)]

\* query_engine.query_sources: [exc, hits, calls]
QuerySources(source, k) ==
    Flatten(source \in {"general", "all"}, source \in {"cs", "all"},
            QueryCollection(GENERAL_COLLECTION_NAME, k),
            QueryCollection(CS_COLLECTION_NAME, k))

-----------------------------------------------------------------------------
(* The generation backend *)

\* the text the backend generates for a prompt
Reply(prompt, model, out) ==
    [kind |-> "reply", to |-> prompt, model |-> model, pad |-> out.pad]

\* the empty string
EmptyText == [kind |-> "empty"]

NoText == [kind |-> "unset"]

\* llm_runner.ask_ollama: [exc, text, calls]
AskOllama(prompt, model, out) ==
    LET call == <<[call |-> "generate", via |-> "ask_ollama", model |-> model]>>
    IN  IF AskOllamaException(out) # NoException
        THEN [exc |-> AskOllamaException(out), text |-> NoText, calls |-> call]
        ELSE [exc |-> NoException, text |-> Reply(prompt, model, out), calls |-> call]

\* LLMService.generate -> _call_ollama: [exc, text, calls]
LLMGenerate(prompt, model, out) ==
    LET call == <<[call |-> "generate", via |-> "LLMService", model |-> model]>>
    IN  CASE out.kind = "conn_error" ->
               [exc |-> "ConnectionError", text |-> NoText, calls |-> call]
          [] out.kind = "status_error" ->
               [exc |-> "HTTPError", text |-> NoText, calls |-> call]
          [] out.kind = "bad_json" ->
               [exc |-> "JSONDecodeError", text |-> NoText, calls |-> call]
          [] out.kind = "missing_field" ->
               \* (data.get("response") or "").strip()
               [exc |-> NoException, text |-> EmptyText, calls |-> call]
          [] OTHER ->
               [exc |-> NoException,
                text |-> [Reply(prompt, model, out) EXCEPT !.pad = FALSE],
                calls |-> call]

-----------------------------------------------------------------------------
(* orchestrator._map_sources_to_rag_keys *)

\* str.lower() on the source and operation names the model uses
Lower(x) ==
    CASE x = "ALL"       -> "all"
      [] x = "Notes"     -> "notes"
      [] x = "Summarize" -> "summarize"
      [] OTHER           -> x

\* the key appended without the membership test
AddAlways(keys, k) == Append(keys, k)

\* add_if_missing
AddIfMissing(keys, k) ==
    IF \E i \in 1..Len(keys) : keys[i] = k THEN keys ELSE Append(keys, k)

\* "all" resolved to general before cs
AddSourceGeneralFirst(keys, src) ==
    LET k1 == IF src \in {"notes", "cs"} THEN AddIfMissing(keys, "cs") ELSE keys
        k2 == IF src \in {"documents", "general"} THEN AddIfMissing(k1, "general") ELSE k1
    IN  IF src = "all" THEN AddIfMissing(AddIfMissing(k2, "general"), "cs") ELSE k2

\* the three ifs applied to one source name
AddSource(keys, src) ==
    LET k1 == IF src \in {"notes", "cs"} THEN AddIfMissing(keys, "cs") ELSE keys
        k2 == IF src \in {"documents", "general"} THEN AddIfMissing(k1, "general") ELSE k1
    IN  IF src = "all" THEN AddIfMissing(AddIfMissing(k2, "cs"), "general") ELSE k2

\* for src in secondary
RECURSIVE AddSecondary(_, _)
AddSecondary(keys, secondary) ==
    IF secondary = <<>> THEN keys
    ELSE AddSecondary(AddSource(keys, Lower(Head(secondary))), Tail(secondary))

\* _map_sources_to_rag_keys
MapSourcesToRagKeys(r) ==
    LET primary == Lower(OrStr(r.primary_source, "notes"))
        keys    == AddSecondary(AddSource(<<>>, primary), r.secondary_sources)
    IN  IF keys = <<>> THEN <<"cs">> ELSE keys

-----------------------------------------------------------------------------
(* rag/llm.py: build_prompt_from_hits *)

\* max_context_chars
MaxContextChars == 6000

\* len(header): "[idx] (source=..., file=..., chunk=...)"
HeaderLen(idx, hit) == 44

\* the length of the text alone, header and line ends left out
SnippetLenTextOnly(idx, hit) == TextLen(Strip(hit.text))

\* len(snippet) of the hit at 0-based position idx
SnippetLen(idx, hit) == HeaderLen(idx, hit) + 1 + TextLen(Strip(hit.text)) + 1

\* the number of hits the loop includes before it breaks or ends;
\* n hits are included so far, with total_chars = total
RECURSIVE IncludedCount(_, _, _, _)
IncludedCount(hits, n, total, maxChars) ==
    IF n = Len(hits) THEN n
    ELSE IF total + SnippetLen(n, hits[n + 1]) > maxChars THEN n
    ELSE IncludedCount(hits, n + 1, total + SnippetLen(n, hits[n + 1]), maxChars)

\* the no-context template also when no snippet was included
BuildPromptFromHitsOrNoContext(question, hits, maxChars) ==
    IF hits = <<>> \/ IncludedCount(hits, 0, 0, maxChars) = 0
    THEN [template |-> "no_context", question |-> question, context |-> <<>>]
    ELSE [template |-> "context", question |-> question,
          context |-> [i \in 1..IncludedCount(hits, 0, 0, maxChars) |->
                          [idx |-> i - 1, collection |-> hits[i].collection,
                           id |-> hits[i].id, text |-> Strip(hits[i].text)]]]

\* build_prompt_from_hits
BuildPromptFromHits(question, hits, maxChars) ==
    IF hits = <<>>
    THEN [template |-> "no_context", question |-> question, context |-> <<>>]
    ELSE [template |-> "context", question |-> question,
          context |-> [i \in 1..IncludedCount(hits, 0, 0, maxChars) |->
                          [idx |-> i - 1, collection |-> hits[i].collection,
                           id |-> hits[i].id, text |-> Strip(hits[i].text)]]]

\* orchestrator._build_operation_prompt
BuildOperationPrompt(message, hits, operation) ==
    IF Lower(OrStr(operation, "qa")) = "summarize"
    THEN BuildPromptFromHits("Summarize the key points relevant to: " \o message, hits,
                             MaxContextChars)
    ELSE BuildPromptFromHits(message, hits, MaxContextChars)

-----------------------------------------------------------------------------
(* rag/summarizer.py *)

\* max_chars_per_batch
MaxCharsPerBatch == 2500

\* _load_all_chunks: [exc, docs, calls]
LoadAllChunks(name) ==
    LET call == <<[call |-> "get_all", collection |-> name, k |-> 0]>>
    IN  IF name \in idxFail
        THEN [exc |-> "ChromaError", docs |-> <<>>, calls |-> call]
        ELSE [exc |-> NoException, docs |-> Collection(name), calls |-> call]

\* the loop that closes the current batch and leaves out the text that did
\* not fit
RECURSIVE MakeBatchesFromClosing(_, _, _, _, _, _)
MakeBatchesFromClosing(docs, i, batches, parts, curLen, maxChars) ==
    IF i > Len(docs)
    THEN (IF parts # <<>> THEN Append(batches, parts) ELSE batches)
    ELSE LET text == Strip(docs[i].text)
         IN  IF TextLen(text) = 0
             THEN MakeBatchesFromClosing(docs, i + 1, batches, parts, curLen, maxChars)
             ELSE IF curLen + TextLen(text) + 2 > maxChars /\ parts # <<>>
             THEN MakeBatchesFromClosing(docs, i + 1, Append(batches, parts), <<>>,
                                         0, maxChars)
             ELSE MakeBatchesFromClosing(docs, i + 1, batches, Append(parts, text),
                                         curLen + TextLen(text) + 2, maxChars)

\* _make_batches: the loop from document i on; a batch is the list of the
\* stripped texts it joins
RECURSIVE MakeBatchesFrom(_, _, _, _, _, _)
MakeBatchesFrom(docs, i, batches, parts, curLen, maxChars) ==
    IF i > Len(docs)
    THEN (IF parts # <<>> THEN Append(batches, parts) ELSE batches)
    ELSE LET text == Strip(docs[i].text)
         IN  IF TextLen(text) = 0
             THEN MakeBatchesFrom(docs, i + 1, batches, parts, curLen, maxChars)
             ELSE IF curLen + TextLen(text) + 2 > maxChars /\ parts # <<>>
             THEN MakeBatchesFrom(docs, i + 1, Append(batches, parts), <<text>>,
                                  TextLen(text) + 2, maxChars)
             ELSE MakeBatchesFrom(docs, i + 1, batches, Append(parts, text),
                                  curLen + TextLen(text) + 2, maxChars)

\* _make_batches
MakeBatches(docs, maxChars) == MakeBatchesFrom(docs, 1, <<>>, <<>>, 0, maxChars)

\* _summarize_batch: [exc, text, calls]
SummarizeBatch(batch, model, out) ==
    LLMGenerate([template |-> "batch", question |-> "", context |-> batch], model, out)

\* one turn of the loop over the batches, r the outcome of _summarize_batch
RECURSIVE SummarizeBatches(_, _, _, _, _, _)
AfterBatch(r, batches, i, summaries, callsSoFar, model, out) ==
    IF r.exc # NoException
    THEN [exc |-> r.exc, summaries |-> summaries, calls |-> callsSoFar \o r.calls]
    ELSE SummarizeBatches(batches, i + 1, Append(summaries, r.text),
                          callsSoFar \o r.calls, model, out)

\* the loop over the batches from batch i on: [exc, summaries, calls]
SummarizeBatches(batches, i, summaries, callsSoFar, model, out) ==
    IF i > Len(batches)
    THEN [exc |-> NoException, summaries |-> summaries, calls |-> callsSoFar]
    ELSE AfterBatch(SummarizeBatch(batches[i], model, out), batches, i, summaries,
                    callsSoFar, model, out)

\* return final_summary
AfterMerge(final, callsSoFar) ==
    [exc |-> final.exc, text |-> final.text, calls |-> callsSoFar \o final.calls]

\* a single batch summary returned unmerged whatever the models
MergeSummariesSingleUnmerged(sums, callsSoFar, batchModel, finalModel, out) ==
    IF sums.exc # NoException
    THEN [exc |-> sums.exc, text |-> NoText, calls |-> callsSoFar \o sums.calls]
    ELSE IF Len(sums.summaries) = 1
    THEN [exc |-> NoException, text |-> sums.summaries[1],
          calls |-> callsSoFar \o sums.calls]
    ELSE AfterMerge(LLMGenerate([template |-> "merge", question |-> "",
                                 context |-> sums.summaries], finalModel, out),
                    callsSoFar \o sums.calls)

\* summarize_collection after the loop over the batches
MergeSummaries(sums, callsSoFar, batchModel, finalModel, out) ==
    IF sums.exc # NoException
    THEN [exc |-> sums.exc, text |-> NoText, calls |-> callsSoFar \o sums.calls]
    ELSE IF Len(sums.summaries) = 1 /\ batchModel = finalModel
    THEN [exc |-> NoException, text |-> sums.summaries[1],
          calls |-> callsSoFar \o sums.calls]
    ELSE AfterMerge(LLMGenerate([template |-> "merge", question |-> "",
                                 context |-> sums.summaries], finalModel, out),
                    callsSoFar \o sums.calls)

\* summarize_collection after _load_all_chunks
SummarizeLoaded(loaded, batchModel, finalModel, out) ==
    IF loaded.exc # NoException
    THEN [exc |-> loaded.exc, text |-> NoText, calls |-> loaded.calls]
    ELSE IF loaded.docs = <<>>
    THEN [exc |-> NoException, text |-> [kind |-> "no_documents"], calls |-> loaded.calls]
    ELSE MergeSummaries(SummarizeBatches(MakeBatches(loaded.docs, MaxCharsPerBatch), 1,
                                         <<>>, <<>>, batchModel, out),
                        loaded.calls, batchModel, finalModel, out)

\* summarize_collection: [exc, text, calls]
SummarizeCollection(name, batchModel, finalModel, out) ==
    SummarizeLoaded(LoadAllChunks(name), batchModel, finalModel, out)

-----------------------------------------------------------------------------
(* orchestrator.py: the handlers.  Each returns [exc, result, calls]. *)

NoResult == [answer |-> NoText, sources |-> <<>>, routing |-> NoRoute]

\* the routing field built from the normalised operation instead of the
\* decision's own fields
ReturnedNormalised(gen, sources, r, callsSoFar) ==
    IF gen.exc # NoException
    THEN [exc |-> gen.exc, result |-> NoResult, calls |-> callsSoFar \o gen.calls]
    ELSE [exc |-> NoException,
          result |-> [answer |-> gen.text, sources |-> sources,
                      routing |-> [r EXCEPT !.operation = OrStr(@, "qa")]],
          calls |-> callsSoFar \o gen.calls]

\* return {"answer": answer, "sources": sources, "routing": route.__dict__},
\* or the exception of the generation call gen
Returned(gen, sources, r, callsSoFar) ==
    IF gen.exc # NoException
    THEN [exc |-> gen.exc, result |-> NoResult, calls |-> callsSoFar \o gen.calls]
    ELSE [exc |-> NoException,
          result |-> [answer |-> gen.text, sources |-> sources, routing |-> r],
          calls |-> callsSoFar \o gen.calls]

\* _free_chat_response
FreeChatResponse(message, r, out) ==
    Returned(AskOllama([template |-> "free_chat", question |-> message,
                        context |-> <<>>], DEFAULT_QUERY_MODEL, out),
             <<>>, r, <<>>)

\* the sender never read from the arguments
SenderIgnored(r) == "(unknown sender)"

\* sender = route.arguments.get("sender", "(unknown sender)") if route.arguments
\*          else "(unknown sender)"
Sender(r) ==
    IF DOMAIN r.arguments # {}
    THEN Get(r.arguments, "sender", "(unknown sender)")
    ELSE "(unknown sender)"

\* _handle_email_latest
HandleEmailLatest(r) ==
    [exc |-> NoException,
     result |-> [answer |-> [kind |-> "email_latest stub", sender |-> Sender(r)],
                 sources |-> <<>>, routing |-> r],
     calls |-> <<>>]

\* the collection to summarize taken from the decision's resolved sources
HandleSummarizeResolved(r, out) ==
    Returned(SummarizeCollection(IF MapSourcesToRagKeys(r)[1] = "cs"
                                 THEN CS_COLLECTION_NAME ELSE GENERAL_COLLECTION_NAME,
                                 DEFAULT_BATCH_MODEL, DEFAULT_FINAL_MODEL, out),
             <<>>, r, <<>>)

\* _handle_summarize
HandleSummarize(r, out) ==
    Returned(SummarizeCollection(CS_COLLECTION_NAME, DEFAULT_BATCH_MODEL,
                                 DEFAULT_FINAL_MODEL, out),
             <<>>, r, <<>>)

\* one turn of the loop over the rag sources, q the outcome of query_sources
RECURSIVE QueryAll(_, _, _, _)
Extend(q, keys, i, allHits, callsSoFar) ==
    IF q.exc # NoException
    THEN [exc |-> q.exc, hits |-> allHits, calls |-> callsSoFar \o q.calls]
    ELSE QueryAll(keys, i + 1, allHits \o q.hits, callsSoFar \o q.calls)

\* for rag_source in rag_sources: hits = query_sources(rag_source, message, k=3);
\* all_hits.extend(hits) -- from key i on: [exc, hits, calls]
QueryAll(keys, i, allHits, callsSoFar) ==
    IF i > Len(keys)
    THEN [exc |-> NoException, hits |-> allHits, calls |-> callsSoFar]
    ELSE Extend(QuerySources(keys[i], HandlerK), keys, i, allHits, callsSoFar)

\* prompt = _build_operation_prompt(...); answer = ask_ollama(prompt, ...); return
AnswerFromHits(message, r, hitsForPrompt, callsSoFar, out) ==
    Returned(AskOllama(BuildOperationPrompt(message, hitsForPrompt, r.operation),
                       DEFAULT_QUERY_MODEL, out),
             hitsForPrompt, r, callsSoFar)

\* the merged hits sorted by score before the cap
AfterRetrievalSorted(q, message, r, out) ==
    IF q.exc # NoException
    THEN [exc |-> q.exc, result |-> NoResult, calls |-> q.calls]
    ELSE AnswerFromHits(message, r, Take(SortByScore(q.hits), TotalCap), q.calls, out)

\* _handle_rag_qa after its loop: hits_for_prompt = all_hits[:5] and the rest
AfterRetrieval(q, message, r, out) ==
    IF q.exc # NoException
    THEN [exc |-> q.exc, result |-> NoResult, calls |-> q.calls]
    ELSE AnswerFromHits(message, r, Take(q.hits, TotalCap), q.calls, out)

\* _handle_rag_qa
HandleRagQa(message, r, out) ==
    AfterRetrieval(QueryAll(MapSourcesToRagKeys(r), 1, <<>>, <<>>), message, r, out)

\* the query without the try
OrEmptyUncaught(q) == [exc |-> q.exc, hits |-> q.hits, calls |-> q.calls]

\* try: hits = query_sources("cs", message, k=5) except Exception: hits = []
OrEmpty(q) ==
    [exc |-> NoException, hits |-> IF q.exc # NoException THEN <<>> ELSE q.hits,
     calls |-> q.calls]

\* _prefetch_hits_for_message: [exc, hits, calls]
PrefetchHitsForMessage(message) == OrEmpty(QuerySources("cs", PrefetchK))

\* the speculative hits reused whatever the key list
ReusePrefetchAnyKeys(ragKeys, pre) == pre # <<>>

\* rag_keys == ["cs"] and prefetched_hits
ReusePrefetch(ragKeys, pre) == ragKeys = <<"cs">> /\ pre # <<>>

\* _handle_rag_qa_with_prefetch after rag_keys = _map_sources_to_rag_keys(route)
WithRagKeys(ragKeys, message, r, pre, out) ==
    IF ReusePrefetch(ragKeys, pre)
    THEN AnswerFromHits(message, r, pre, <<>>, out)
    ELSE AfterRetrieval(QueryAll(ragKeys, 1, <<>>, <<>>), message, r, out)

\* _handle_rag_qa_with_prefetch
HandleRagQaWithPrefetch(message, r, pre, out) ==
    WithRagKeys(MapSourcesToRagKeys(r), message, r, pre, out)

-----------------------------------------------------------------------------
(* orchestrator.py: dispatch.  [state, handler, exc, result, calls] *)

\* the threshold tested after the special-case operations
IsLowConfidenceAfterSpecialCases(r) ==
    /\ r.confidence < LowConfidence
    /\ OrStr(r.operation, "qa") \notin {"email_latest", "summarize"}

\* the threshold tested with <=
IsLowConfidenceInclusive(r) == r.confidence <= LowConfidence

\* route.confidence is not None and route.confidence < 0.1
IsLowConfidence(r) == r.confidence < LowConfidence

Ran(st, h, o) ==
    [state |-> st, handler |-> h, exc |-> o.exc, result |-> o.result, calls |-> o.calls]

\* handle_prompt after route_query returned r
HandlePromptDispatch(message, r, out) ==
    LET op == OrStr(r.operation, "qa")
    IN  IF IsLowConfidence(r)
        THEN Ran("LOW_CONFIDENCE_FALLBACK", "_free_chat_response",
                 FreeChatResponse(message, r, out))
        ELSE IF op = "email_latest"
        THEN Ran("EMAIL_LATEST", "_handle_email_latest", HandleEmailLatest(r))
        ELSE IF op = "summarize"
        THEN Ran("SUMMARIZE", "_handle_summarize", HandleSummarize(r, out))
        ELSE IF op = "free_chat"
        THEN Ran("FREE_CHAT", "_free_chat_response", FreeChatResponse(message, r, out))
        ELSE Ran("RAG_QA", "_handle_rag_qa", HandleRagQa(message, r, out))

\* handle_prompt_async after gather returned r and the prefetched hits
HandlePromptAsyncDispatch(message, r, pre, out) ==
    LET op == OrStr(r.operation, "qa")
    IN  IF IsLowConfidence(r)
        THEN Ran("LOW_CONFIDENCE_FALLBACK", "_free_chat_response",
                 FreeChatResponse(message, r, out))
        ELSE IF op = "email_latest"
        THEN Ran("EMAIL_LATEST", "_handle_email_latest", HandleEmailLatest(r))
        ELSE IF op = "summarize"
        THEN Ran("SUMMARIZE", "_handle_summarize", HandleSummarize(r, out))
        ELSE IF op = "free_chat"
        THEN Ran("FREE_CHAT", "_free_chat_response", FreeChatResponse(message, r, out))
        ELSE Ran("RAG_QA", "_handle_rag_qa_with_prefetch",
                 HandleRagQaWithPrefetch(message, r, pre, out))

-----------------------------------------------------------------------------
(* The inputs of a request: the configuration, what the backends answer and
   what the index holds. *)

Absent == "<absent>"
AbsentV == [absent |-> TRUE]

\* one key of a JSON object, left out when the value is absent
Field(k, v) == IF v = Absent THEN EmptyDict ELSE (k :> v)
FieldV(k, v) == IF v = AbsentV THEN EmptyDict ELSE (k :> v)

\* the JSON object the classification backend wrote
MkDict(op, primary, secondary, arguments, reasoning, confidence) ==
    Field("operation", op) @@ Field("primary_source", primary)
    @@ FieldV("secondary_sources", secondary) @@ FieldV("arguments", arguments)
    @@ Field("reasoning", reasoning) @@ Field("search_strategy", "semantic")
    @@ FieldV("confidence", confidence)

Alice == ("sender" :> "Alice")

\* objects that differ in what dispatch looks at
DispatchDicts ==
    {MkDict(op, ps, ss, ar, "because", cf) :
        op \in {Absent, None, "", "qa", "summarize", "email_latest", "free_chat", "Summarize"},
        ps \in {"notes", "all", "emails"},
        ss \in {ListV(<<>>), ListV(<<"documents">>)},
        ar \in {EmptyDict, Alice},
        cf \in {AbsentV, NumV(5), NumV(10), NumV(90)}}

\* a few objects, one per handler, for the requests whose collaborators vary
HandlerDicts ==
    {MkDict("qa", ps, ListV(<<>>), EmptyDict, "because", NumV(90)) :
        ps \in {"notes", "ALL", "documents"}}
    \cup {MkDict(op, "notes", ListV(<<>>), Alice, "because", NumV(90)) :
            op \in {"summarize", "email_latest", "free_chat"}}
    \cup {MkDict("qa", "notes", ListV(<<>>), EmptyDict, "because", NumV(5))}

\* objects with missing, null and ill-typed fields
RouterDicts ==
    {MkDict(op, ps, ss, ss, rs, cf) :
        op \in {Absent, None, "summarize"},
        ps \in {Absent, None, "documents"},
        ss \in {AbsentV, NullV},
        rs \in {Absent, None, "because"},
        cf \in {AbsentV, NullV, BadNumV, NumV(5)}}

\* the source names a decision may carry
PrimarySources ==
    {"notes", "cs", "documents", "general", "all", "emails", "", None, "Notes", "ALL"}
SecondaryTokens == {"notes", "cs", "documents", "general", "all", "emails", "ALL"}

\* the lists of at most two secondary sources
SecondaryLists == UNION {[1..n -> SecondaryTokens] : n \in 0..2}

\* qa objects that differ in their sources
SourceDicts ==
    {MkDict("qa", ps, ListV(ss), EmptyDict, "because", NumV(90)) :
        ps \in PrimarySources, ss \in SecondaryLists}

PlainDict == MkDict("free_chat", "notes", ListV(<<>>), EmptyDict, "because", NumV(90))

\* the token sequences of at most MaxRawLen tokens
RawTexts ==
    UNION {[1..n -> {LBrace, RBrace, Prose, Body(PlainDict)}] : n \in 0..MaxRawLen}

\* the object alone, as the backend is asked to write it
Clean(d) == <<LBrace, Body(d), RBrace>>

ErrorKinds == {"conn_error", "status_error", "bad_json", "missing_field"}

\* what the local classification backend may do
OllamaErrors == {[kind |-> k, raw |-> <<>>] : k \in ErrorKinds \cup {"null_text"}}
OllamaText(raw) == [kind |-> "text", raw |-> raw]

\* what the remote classification backend may do
GroqOuts ==
    {[kind |-> k, raw |-> <<>>] : k \in {"conn_error", "status_error", "bad_json", "no_content"}}
    \cup {[kind |-> "content", raw |-> raw] :
            raw \in {Clean(MkDict("summarize", "notes", ListV(<<>>), EmptyDict, "because", NumV(90))),
                     <<JsonList>>, <<Prose>>, <<LBrace, Body(PlainDict)>>}}
GroqUnused == [kind |-> "conn_error", raw |-> <<>>]

\* what the generation backend may do
OkGen == [kind |-> "ok", pad |-> FALSE]
GenOuts == {[kind |-> k, pad |-> FALSE] : k \in ErrorKinds}
           \cup {[kind |-> "ok", pad |-> p] : p \in BOOLEAN}

\* requests that differ in the decision, with collaborators that work
InitDispatch ==
    /\ useGroq = FALSE /\ groqOut = GroqUnused
    /\ ollamaOut \in {OllamaText(Clean(d)) : d \in DispatchDicts}
    /\ genOut = OkGen
    /\ csDocs = CsCollection(MaxDocs) /\ generalDocs = GeneralCollection(2)
    /\ idxFail = {}

\* requests that differ in what the collaborators do
InitCollaborators ==
    /\ useGroq = FALSE /\ groqOut = GroqUnused
    /\ ollamaOut \in {OllamaText(Clean(d)) : d \in HandlerDicts}
    /\ genOut \in GenOuts
    /\ csDocs \in {CsCollection(n) : n \in 0..MaxDocs}
    /\ generalDocs \in {GeneralCollection(n) : n \in {0, 2}}
    /\ idxFail \in SUBSET {CS_COLLECTION_NAME, GENERAL_COLLECTION_NAME}

\* requests that differ in what the classification backends answer
InitRouter ==
    /\ \/ /\ useGroq = FALSE /\ groqOut = GroqUnused
          /\ ollamaOut \in OllamaErrors
                           \cup {OllamaText(raw) : raw \in RawTexts \cup {<<JsonList>>}}
                           \cup {OllamaText(Clean(d)) : d \in RouterDicts}
       \/ /\ useGroq = TRUE /\ groqOut \in GroqOuts
          /\ ollamaOut \in OllamaErrors
                           \cup {OllamaText(raw) : raw \in {<<Prose>>, <<LBrace, RBrace>>,
                                                            Clean(PlainDict)}}
    /\ genOut = OkGen
    /\ csDocs = CsCollection(1) /\ generalDocs = GeneralCollection(1)
    /\ idxFail = {}

\* qa requests that differ in the sources the decision names
InitSources ==
    /\ useGroq = FALSE /\ groqOut = GroqUnused
    /\ ollamaOut \in {OllamaText(Clean(d)) : d \in SourceDicts}
    /\ genOut = OkGen
    /\ csDocs = CsCollection(MaxDocs) /\ generalDocs = GeneralCollection(HandlerK)
    /\ idxFail = {}

\* the client handle as the model of one request leaves it: the index is
\* read through Collection
ClientUnused ==
    /\ client = 0
    /\ built = 0
    /\ threads = <<>>
    /\ used = {}
    /\ handled = {}
    /\ chroma = {}

\* no function is called directly in a request
NoCall == [fn |-> "none"]
NoReturn == [returned |-> FALSE]

Init ==
    /\ mode \in {"sync", "async"}
    /\ InitDispatch \/ InitCollaborators \/ InitRouter \/ InitSources
    /\ pc = "start"
    /\ pcRoute = "idle"
    /\ pcPrefetch = "idle"
    /\ route = NoRoute
    /\ routeExc = NoException
    /\ prefetchExc = NoException
    /\ prefetched = <<>>
    /\ state = "none"
    /\ handlers = {}
    /\ result = NoResult
    /\ error = NoException
    /\ http = [status |-> 0]
    /\ calls = <<>>
    /\ unitCall = NoCall
    /\ unitRet = NoReturn
    /\ ClientUnused

-----------------------------------------------------------------------------
(* handle_prompt: sequential mode *)

\* route_query returned or raised r in the caller's thread
Routed(r) ==
    /\ calls' = calls \o r.calls
    /\ IF r.exc # NoException
       THEN /\ pc' = "failed" /\ pcRoute' = "raised"
            /\ error' = r.exc /\ routeExc' = r.exc
            /\ route' = route
       ELSE /\ pc' = "dispatch" /\ pcRoute' = "done"
            /\ route' = r.decision
            /\ UNCHANGED <<error, routeExc>>

\* route: RouteDecision = route_query(message)
HandlePromptRoute ==
    /\ mode = "sync" /\ pc = "start"
    /\ Routed(RouteQuery(useGroq, groqOut, ollamaOut))
    /\ UNCHANGED <<envVars, unitVars, clientVars, pcPrefetch, prefetched, prefetchExc, state, handlers, result, http>>

\* the handler the dispatch d called returned or raised
Handled(d) ==
    /\ state' = d.state
    /\ handlers' = handlers \cup {d.handler}
    /\ calls' = calls \o d.calls
    /\ IF d.exc # NoException
       THEN pc' = "failed" /\ error' = d.exc /\ result' = result
       ELSE pc' = "done" /\ result' = d.result /\ error' = error

\* the rest of handle_prompt: the dispatch and the handler it calls
HandlePromptHandle ==
    /\ mode = "sync" /\ pc = "dispatch"
    /\ Handled(HandlePromptDispatch(Message, route, genOut))
    /\ UNCHANGED <<envVars, unitVars, clientVars, pcRoute, pcPrefetch, route, routeExc, prefetched, prefetchExc,
                   http>>

-----------------------------------------------------------------------------
(* handle_prompt_async: concurrent mode *)

\* the two run_in_executor calls
AsyncLaunch ==
    /\ mode = "async" /\ pc = "start"
    /\ pc' = "gather"
    /\ pcRoute' = "running"
    /\ pcPrefetch' = "running"
    /\ UNCHANGED <<envVars, unitVars, clientVars, route, routeExc, prefetched, prefetchExc, state, handlers,
                   result, error, http, calls>>

\* route_query returned or raised r in its worker thread
RoutedInThread(r) ==
    /\ calls' = calls \o r.calls
    /\ IF r.exc # NoException
       THEN pcRoute' = "raised" /\ routeExc' = r.exc /\ route' = route
       ELSE pcRoute' = "done" /\ route' = r.decision /\ routeExc' = routeExc

\* route_query in its worker thread
RoutingTask ==
    /\ pcRoute = "running"
    /\ RoutedInThread(RouteQuery(useGroq, groqOut, ollamaOut))
    /\ UNCHANGED <<envVars, unitVars, clientVars, pc, pcPrefetch, prefetched, prefetchExc, state, handlers, result,
                   error, http>>

\* _prefetch_hits_for_message returned p in its worker thread
Prefetched(p) ==
    /\ prefetched' = p.hits
    /\ prefetchExc' = p.exc
    /\ pcPrefetch' = IF p.exc # NoException THEN "raised" ELSE "done"
    /\ calls' = calls \o p.calls

\* _prefetch_hits_for_message in its worker thread
PrefetchTask ==
    /\ pcPrefetch = "running"
    /\ Prefetched(PrefetchHitsForMessage(Message))
    /\ UNCHANGED <<envVars, unitVars, clientVars, pc, pcRoute, route, routeExc, state, handlers, result, error, http>>

\* a race: the first result is enough
GatherReadyRace == pcRoute = "done"

\* await asyncio.gather(routing_task, prefetch_task) has both results
GatherReady == pcRoute = "done" /\ pcPrefetch = "done"

\* gather returned: the dispatch and the handler it calls
GatherReturn ==
    /\ mode = "async" /\ pc = "gather"
    /\ GatherReady
    /\ Handled(HandlePromptAsyncDispatch(Message, route, prefetched, genOut))
    /\ UNCHANGED <<envVars, unitVars, clientVars, pcRoute, pcPrefetch, route, routeExc, prefetched, prefetchExc,
                   http>>

\* gather raises the first exception a unit raised, as soon as it is set; the
\* other thread is left to finish
GatherRaise ==
    /\ mode = "async" /\ pc = "gather"
    /\ "raised" \in {pcRoute, pcPrefetch}
    /\ pc' = "failed"
    /\ error' = IF pcRoute = "raised" THEN routeExc ELSE prefetchExc
    /\ UNCHANGED <<envVars, unitVars, clientVars, pcRoute, pcPrefetch, route, routeExc, prefetched, prefetchExc,
                   state, handlers, result, http, calls>>

-----------------------------------------------------------------------------
(* api/routes.py *)

\* prompt_endpoint: the response, or HTTPException(500, detail=str(e))
PromptEndpoint ==
    /\ mode = "async" /\ pc \in {"done", "failed"}
    /\ http.status = 0
    /\ http' = IF pc = "failed"
               THEN [status |-> 500, detail |-> error]
               ELSE [status |-> 200, answer |-> result.answer, routing |-> result.routing,
                     sources |-> result.sources]
    /\ UNCHANGED <<envVars, unitVars, clientVars, pc, pcRoute, pcPrefetch, route, routeExc, prefetched,
                   prefetchExc, state, handlers, result, error, calls>>

Next ==
    \/ HandlePromptRoute
    \/ HandlePromptHandle
    \/ AsyncLaunch
    \/ RoutingTask
    \/ PrefetchTask
    \/ GatherReturn
    \/ GatherRaise
    \/ PromptEndpoint

Spec == Init /\ [][Next]_vars

-----------------------------------------------------------------------------
(* Functions of the core called directly, with arguments of any value *)

\* the texts of the hits: blank, short and long, with and without white space
\* around them
UnitTexts == {Text(c, p) : c \in {0, 100, 1200}, p \in {0, 1}}

\* the hit lists of at most MaxHits hits
UnitHitLists ==
    UNION {{[i \in 1..n |-> [collection |-> "cs", id |-> i, score |-> i, text |-> txts[i]]] :
                txts \in [1..n -> UnitTexts]} : n \in 0..MaxHits}

\* values of max_context_chars around the lengths of one, two and three snippets
UnitMaxChars == {0, 45, 46, 146, 192, 1246, 1292, 2492, 6000}

\* the calls build_prompt_from_hits(question, hits, max_context_chars)
BuildPromptCalls ==
    {[fn |-> "build_prompt_from_hits", question |-> Message, hits |-> h,
      max_context_chars |-> m] : h \in UnitHitLists, m \in UnitMaxChars}

\* the texts of the chunks: blank, of white space only, such that two fit in a
\* batch of 2500, such that no two fit, and longer than a batch
UnitChunkTexts == {Text(0, 0), Text(0, 1), Text(1200, 1), Text(1300, 0), Text(3000, 0)}

\* the chunk lists of at most MaxChunks chunks
UnitChunkLists ==
    UNION {{[i \in 1..n |-> [id |-> i, score |-> i, text |-> txts[i]]] :
                txts \in [1..n -> UnitChunkTexts]} : n \in 0..MaxChunks}

\* values of max_chars_per_batch around the lengths of one and two chunks
UnitBatchChars == {1000, 1201, 1202, 2404, 2500, 2504}

\* the calls _make_batches(docs, max_chars_per_batch)
MakeBatchesCalls ==
    {[fn |-> "_make_batches", docs |-> d, max_chars_per_batch |-> m] :
        d \in UnitChunkLists, m \in UnitBatchChars}

\* the calls summarize_collection(collection_name, batch_model, final_model)
SummarizeCalls ==
    {[fn |-> "summarize_collection", collection_name |-> CS_COLLECTION_NAME,
      batch_model |-> b, final_model |-> DEFAULT_FINAL_MODEL] :
        b \in {DEFAULT_BATCH_MODEL, DEFAULT_FINAL_MODEL}}

\* the function called, and what the collaborators it reaches hold and do
UnitInputs ==
    \/ /\ unitCall \in BuildPromptCalls \cup MakeBatchesCalls
       /\ genOut = OkGen
       /\ csDocs = <<>>
    \/ /\ unitCall \in SummarizeCalls
       /\ genOut \in GenOuts
       /\ csDocs \in UnitChunkLists

UnitInit ==
    /\ mode = "sync"
    /\ useGroq = FALSE /\ groqOut = GroqUnused
    /\ ollamaOut = OllamaText(Clean(PlainDict))
    /\ UnitInputs
    /\ generalDocs = <<>>
    /\ idxFail = {}
    /\ pc = "unit"
    /\ pcRoute = "idle"
    /\ pcPrefetch = "idle"
    /\ route = NoRoute
    /\ routeExc = NoException
    /\ prefetchExc = NoException
    /\ prefetched = <<>>
    /\ state = "none"
    /\ handlers = {}
    /\ result = NoResult
    /\ error = NoException
    /\ http = [status |-> 0]
    /\ calls = <<>>
    /\ unitRet = NoReturn
    /\ ClientUnused

\* build_prompt_from_hits(question, hits, max_context_chars)
CallBuildPromptFromHits ==
    /\ pc = "unit" /\ unitRet = NoReturn
    /\ unitCall.fn = "build_prompt_from_hits"
    /\ unitRet' = [returned |-> TRUE,
                   prompt |-> BuildPromptFromHits(unitCall.question, unitCall.hits,
                                                  unitCall.max_context_chars)]
    /\ UNCHANGED <<envVars, clientVars, pc, pcRoute, pcPrefetch, route, routeExc, prefetched,
                   prefetchExc, state, handlers, result, error, http, calls, unitCall>>

\* the value a direct call of summarize_collection returned, or its exception
SummarizeReturned(r) ==
    [returned |-> TRUE, exc |-> r.exc, text |-> r.text, calls |-> r.calls]

\* _make_batches(docs, max_chars_per_batch)
CallMakeBatches ==
    /\ pc = "unit" /\ unitRet = NoReturn
    /\ unitCall.fn = "_make_batches"
    /\ unitRet' = [returned |-> TRUE,
                   batches |-> MakeBatches(unitCall.docs, unitCall.max_chars_per_batch)]
    /\ UNCHANGED <<envVars, clientVars, pc, pcRoute, pcPrefetch, route, routeExc, prefetched,
                   prefetchExc, state, handlers, result, error, http, calls, unitCall>>

\* summarize_collection(collection_name, batch_model, final_model)
CallSummarizeCollection ==
    /\ pc = "unit" /\ unitRet = NoReturn
    /\ unitCall.fn = "summarize_collection"
    /\ unitRet' = SummarizeReturned(SummarizeCollection(unitCall.collection_name,
                                                        unitCall.batch_model,
                                                        unitCall.final_model, genOut))
    /\ UNCHANGED <<envVars, clientVars, pc, pcRoute, pcPrefetch, route, routeExc, prefetched,
                   prefetchExc, state, handlers, result, error, http, calls, unitCall>>

UnitNext ==
    \/ CallBuildPromptFromHits
    \/ CallMakeBatches
    \/ CallSummarizeCollection

UnitSpec == UnitInit /\ [][UnitNext]_vars

-----------------------------------------------------------------------------
(* rag/vector_store.py: the process-wide client handle.  Several requests are
   in flight in one process: each runs _prefetch_hits_for_message in a worker
   thread of the executor, and the handlers run their queries one after
   another in the thread of the event loop.  Every query goes through
   query_collection -> get_collection -> get_client.  A thread may be
   preempted between any two steps of get_client. *)

\* _client = None; the client objects are numbered from 1 in the order of
\* their construction
NoClient == 0

\* the thread of the event loop
LoopThread == 0

\* the worker threads, one per request in flight
Workers == 1..MaxRequests

Threads == {LoopThread} \cup Workers

\* the constructors get_client tries, in order
Constructors == <<"PersistentClient", "Client(Settings)", "Client()">>

\* a thread that runs no query
IdleThread == [pc |-> "idle", handle |-> NoClient, try |-> 0, req |-> 0]

ClientInit ==
    /\ mode = "async"
    /\ useGroq = FALSE /\ groqOut = GroqUnused
    /\ ollamaOut = OllamaText(Clean(PlainDict))
    /\ genOut = OkGen
    /\ csDocs = <<>> /\ generalDocs = <<>>
    /\ idxFail = {}
    /\ pc = "process"
    /\ pcRoute = "idle"
    /\ pcPrefetch = "idle"
    /\ route = NoRoute
    /\ routeExc = NoException
    /\ prefetchExc = NoException
    /\ prefetched = <<>>
    /\ state = "none"
    /\ handlers = {}
    /\ result = NoResult
    /\ error = NoException
    /\ http = [status |-> 0]
    /\ calls = <<>>
    /\ unitCall = NoCall
    /\ unitRet = NoReturn
    /\ client = NoClient
    /\ built = 0
    /\ threads = [t \in Threads |-> IdleThread]
    /\ used = {}
    /\ handled = {}
    /\ chroma \in SUBSET {Constructors[i] : i \in 1..Len(Constructors)}

\* what the steps of the process leave alone
RequestVars ==
    <<envVars, unitVars, pc, pcRoute, pcPrefetch, route, routeExc, prefetched, prefetchExc,
      state, handlers, result, error, http, calls>>

\* loop.run_in_executor(None, _prefetch_hits_for_message, message): the worker
\* thread of request r starts query_collection
LaunchPrefetch(r) ==
    /\ pc = "process"
    /\ threads[r].pc = "idle"
    /\ threads' = [threads EXCEPT ![r] = [pc |-> "check", handle |-> NoClient, try |-> 0, req |-> r]]
    /\ UNCHANGED <<RequestVars, client, built, used, handled, chroma>>

\* after gather returned for request r, its handler starts query_collection in
\* the thread of the event loop
HandlerQuery(r) ==
    /\ pc = "process"
    /\ threads[r].pc \in {"done", "raised"}
    /\ r \notin handled
    /\ threads[LoopThread].pc = "idle"
    /\ threads' = [threads EXCEPT ![LoopThread] =
                        [pc |-> "check", handle |-> NoClient, try |-> 0, req |-> r]]
    /\ handled' = handled \cup {r}
    /\ UNCHANGED <<RequestVars, client, built, used, chroma>>

\* if _client is not None: return _client
GetClientCheck(t) ==
    /\ threads[t].pc = "check"
    /\ threads' = [threads EXCEPT ![t] =
                        IF client # NoClient
                        THEN [@ EXCEPT !.pc = "query", !.handle = client]
                        ELSE [@ EXCEPT !.pc = "construct", !.try = 1]]
    /\ UNCHANGED <<RequestVars, client, built, used, handled, chroma>>

\* one of the three constructor calls: a new client object, or the exception
\* that leads to the next constructor, and after the last to RuntimeError
GetClientConstruct(t) ==
    /\ threads[t].pc = "construct"
    /\ IF Constructors[threads[t].try] \in chroma
       THEN /\ built' = built + 1
            /\ threads' = [threads EXCEPT ![t] = [@ EXCEPT !.pc = "assign", !.handle = built + 1]]
       ELSE /\ built' = built
            /\ threads' = [threads EXCEPT ![t] =
                                IF threads[t].try < Len(Constructors)
                                THEN [@ EXCEPT !.try = @ + 1]
                                ELSE [@ EXCEPT !.pc = "raised"]]
    /\ UNCHANGED <<RequestVars, client, used, handled, chroma>>

\* _client = <the object constructed>
GetClientAssign(t) ==
    /\ threads[t].pc = "assign"
    /\ client' = threads[t].handle
    /\ threads' = [threads EXCEPT ![t] = [@ EXCEPT !.pc = "return"]]
    /\ UNCHANGED <<RequestVars, built, used, handled, chroma>>

\* return _client: the global is read again
GetClientReturn(t) ==
    /\ threads[t].pc = "return"
    /\ threads' = [threads EXCEPT ![t] = [@ EXCEPT !.pc = "query", !.handle = client]]
    /\ UNCHANGED <<RequestVars, client, built, used, handled, chroma>>

\* get_collection(name) and col.query(...) on the handle get_client returned;
\* the thread of the event loop is free again
QueryOnHandle(t) ==
    /\ threads[t].pc = "query"
    /\ used' = used \cup {threads[t].handle}
    /\ threads' = [threads EXCEPT ![t] =
                        IF t = LoopThread THEN IdleThread ELSE [@ EXCEPT !.pc = "done"]]
    /\ UNCHANGED <<RequestVars, client, built, handled, chroma>>

\* the RuntimeError of get_client fails the handler's query; the thread of the
\* event loop is free again
HandlerQueryRaised ==
    /\ threads[LoopThread].pc = "raised"
    /\ threads' = [threads EXCEPT ![LoopThread] = IdleThread]
    /\ UNCHANGED <<RequestVars, client, built, used, handled, chroma>>

ClientNext ==
    \/ \E r \in Workers : LaunchPrefetch(r)
    \/ \E r \in Workers : HandlerQuery(r)
    \/ \E t \in Threads : GetClientCheck(t)
    \/ \E t \in Threads : GetClientConstruct(t)
    \/ \E t \in Threads : GetClientAssign(t)
    \/ \E t \in Threads : GetClientReturn(t)
    \/ \E t \in Threads : QueryOnHandle(t)
    \/ HandlerQueryRaised

ClientSpec == ClientInit /\ [][ClientNext]_vars

-----------------------------------------------------------------------------
(* Properties *)

\* a generation call was made
GenerationCalled == \E i \in 1..Len(calls) : calls[i].call = "generate"

\* the request was dispatched
Dispatched == state # "none"

\* C1: in both modes a decision whose confidence is below 0.1 is dispatched,
\* whatever its operation, to LOW_CONFIDENCE_FALLBACK, and the free-chat
\* handler is the only handler that runs.
C1_LowConfidenceFallsBack ==
    (Dispatched /\ route.confidence < LowConfidence) =>
        /\ state = "LOW_CONFIDENCE_FALLBACK"
        /\ handlers = {"_free_chat_response"}

\* a low-confidence decision that asks for a summary was dispatched, in
\* concurrent mode
C1_Witness ==
    /\ mode = "async" /\ pc = "done"
    /\ state = "LOW_CONFIDENCE_FALLBACK"
    /\ route.operation = "summarize"

\* the terminal state of the transition rule of the dispatch state machine
PriorityState(r) ==
    IF r.confidence < LowConfidence THEN "LOW_CONFIDENCE_FALLBACK"
    ELSE IF r.operation = "email_latest" THEN "EMAIL_LATEST"
    ELSE IF r.operation = "summarize" THEN "SUMMARIZE"
    ELSE IF r.operation = "free_chat" THEN "FREE_CHAT"
    ELSE "RAG_QA"

\* the handler of a terminal state
HandlerOfState(st) ==
    CASE st \in {"LOW_CONFIDENCE_FALLBACK", "FREE_CHAT"} -> "_free_chat_response"
      [] st = "EMAIL_LATEST" -> "_handle_email_latest"
      [] st = "SUMMARIZE" -> "_handle_summarize"
      [] OTHER -> IF mode = "sync" THEN "_handle_rag_qa"
                  ELSE "_handle_rag_qa_with_prefetch"

\* C2: every decision selects exactly one terminal state, by the priority
\* order low confidence, email_latest, summarize, free_chat, else RAG_QA, and
\* exactly the handler of that state runs.
C2_DispatchPriority ==
    /\ Dispatched =>
        /\ state = PriorityState(route)
        /\ handlers = {HandlerOfState(state)}
    /\ ~Dispatched => handlers = {}
    /\ pc = "done" => Dispatched

\* a decision at the threshold itself, with a null or an unrecognized
\* operation, reached RAG_QA
C2_Witness ==
    /\ pc = "done" /\ state = "RAG_QA"
    /\ route.operation \in {None, "Summarize"}
    /\ route.confidence = LowConfidence

\* C3: given the same decision and the same collaborator responses, the
\* concurrent mode ends in the dispatch state of the sequential mode with the
\* same answer and the same sources.
C3_ModesAgree ==
    (mode = "async" /\ pc = "done") =>
        /\ HandlePromptDispatch(Message, route, genOut).exc = NoException
        /\ state = HandlePromptDispatch(Message, route, genOut).state
        /\ result.answer = HandlePromptDispatch(Message, route, genOut).result.answer
        /\ result.sources = HandlePromptDispatch(Message, route, genOut).result.sources

\* no span of the raw response is a JSON object
NoRecord(raw) ==
    \A i \in 1..Len(raw) : \A j \in i..Len(raw) : ~IsJsonObject(SubSeq(raw, i, j))

\* the local classification backend was called
OllamaConsulted == ~useGroq \/ GroqFallsBack(groqOut)

\* every classification backend that was called answered, and with a text
\* that holds no record
UnparsableResponses ==
    /\ useGroq => (groqOut.kind = "content" /\ NoRecord(groqOut.raw))
    /\ OllamaConsulted =>
        \/ ollamaOut.kind = "null_text"
        \/ ollamaOut.kind = "text" /\ NoRecord(ollamaOut.raw)

\* C4: when the classification backend's response cannot be parsed as a
\* structured record, route_query does not raise and returns exactly
\* operation=qa, primary_source=all, secondary_sources=[], confidence=0.1.
C4_UnparsableGivesFallback ==
    (pcRoute \in {"done", "raised"} /\ UnparsableResponses) =>
        /\ pcRoute = "done"
        /\ route.operation = "qa"
        /\ route.primary_source = "all"
        /\ route.secondary_sources = <<>>
        /\ route.confidence = FallbackConfidence

\* a classification backend that was called could not be reached
ClassifierUnreachable ==
    \/ useGroq /\ groqOut.kind = "conn_error"
    \/ OllamaConsulted /\ ollamaOut.kind = "conn_error"

\* C5: a network error or timeout of the classification backend never leaves
\* route_query as an exception; route_query still returns a decision.
C5_ClassifierErrorsCaught ==
    (pcRoute \in {"done", "raised"} /\ ClassifierUnreachable) => pcRoute = "done"

\* C6: in the RAG_QA handler the failure of one collection's query does not
\* fail the request: the handler goes on with the hits of the others.
C6_RetrievalErrorsRecovered ==
    (state = "RAG_QA" /\ idxFail # {}) =>
        /\ error # "ChromaError"
        /\ genOut.kind = "ok" => pc = "done"

\* C7: in concurrent mode a failing speculative retrieval yields an empty
\* result and never fails the join: once classification succeeded, the
\* dispatch takes place, and a join that fails fails by the classification.
C7_PrefetchNeverFailsJoin ==
    /\ pcPrefetch # "raised"
    /\ (pcPrefetch = "done" /\ CS_COLLECTION_NAME \in idxFail) => prefetched = <<>>
    /\ (mode = "async" /\ pcRoute = "done" /\ pc \in {"done", "failed"}) => Dispatched
    /\ (mode = "async" /\ pc = "failed" /\ ~Dispatched) => pcRoute = "raised"

\* the speculative retrieval failed and the request was dispatched and answered
C7_Witness ==
    /\ mode = "async" /\ CS_COLLECTION_NAME \in idxFail
    /\ pcPrefetch = "done" /\ pc = "done" /\ Dispatched

\* C8: a generation-backend failure in any handler fails the request: no
\* answer is returned, and the endpoint answers 500 with the exception text.
C8_GenerationFailureSurfaces ==
    (Dispatched /\ GenerationCalled /\ genOut.kind \in ErrorKinds) =>
        /\ pc = "failed"
        /\ http.status # 0 => (http.status = 500 /\ http.detail = error)

\* C9: a generation response without the text field is a hard failure of the
\* call on every path; no empty string stands in for the missing text.
C9_MissingFieldIsHardFailure ==
    (GenerationCalled /\ genOut.kind = "missing_field") =>
        /\ pc # "done"
        /\ result.answer # EmptyText

\* C10: in concurrent mode no handler starts before classification and
\* speculative retrieval have both completed, in whatever order they complete.
C10_PureJoin ==
    (mode = "async" /\ handlers # {}) => (pcRoute = "done" /\ pcPrefetch = "done")

\* a handler ran after the speculative retrieval completed first and the
\* classification second
C10_Witness ==
    /\ mode = "async" /\ handlers # {}
    /\ calls[1].call = "query" /\ calls[2].call = "ask_ollama"

\* the terminal states whose handlers retrieve nothing
NoRetrievalStates == {"SUMMARIZE", "EMAIL_LATEST", "FREE_CHAT", "LOW_CONFIDENCE_FALLBACK"}

\* C11: every dispatch path that returns, in both modes, returns a result with
\* the three fields answer, sources and routing; sources is the empty list on
\* the summarize, email and free-chat paths, and routing holds the fields of
\* the decision that was dispatched.
C11_ResultHasThreeFields ==
    /\ pc = "done" =>
        /\ DOMAIN result = {"answer", "sources", "routing"}
        /\ result.answer # NoText
        /\ result.routing = route
        /\ state \in NoRetrievalStates => result.sources = <<>>
    /\ http.status = 200 =>
        /\ DOMAIN http = {"status", "answer", "sources", "routing"}
        /\ http.answer = result.answer
        /\ http.sources = result.sources
        /\ http.routing = route

\* a summary was returned through the endpoint, for a decision that names all
\* sources, kept as it is in routing
C11_Witness ==
    /\ mode = "async" /\ http.status = 200
    /\ state = "SUMMARIZE"
    /\ result.sources = <<>>
    /\ result.routing.primary_source = "all"

\* C12: every decision route_query hands to the orchestrator has operation and
\* primary_source populated with a defined value, whatever the backend wrote:
\* a field missing, a field null, or a text that cannot be parsed.
C12_DispatchFieldsPopulated ==
    pcRoute = "done" =>
        /\ route.operation # None
        /\ route.primary_source # None

\* the resolution table: the keys one source token resolves to
TableKeys(tok) ==
    CASE tok \in {"notes", "Notes", "cs"}  -> {"cs"}
      [] tok \in {"documents", "general"}  -> {"general"}
      [] tok \in {"all", "ALL"}            -> {"cs", "general"}
      [] OTHER                             -> {}

\* the place of the first token that resolves to key k, 0 when there is none
FirstPlace(tokens, k) ==
    IF \E i \in 1..Len(tokens) : k \in TableKeys(tokens[i])
    THEN CHOOSE i \in 1..Len(tokens) :
            /\ k \in TableKeys(tokens[i])
            /\ \A j \in 1..(i - 1) : k \notin TableKeys(tokens[j])
    ELSE 0

\* the keys of the tokens in order, first occurrences only (all gives cs
\* before general), and [cs] when no token resolves
ResolvedBy(cs, general) ==
    CASE cs = 0 /\ general = 0 -> <<"cs">>
      [] general = 0           -> <<"cs">>
      [] cs = 0                -> <<"general">>
      [] cs <= general         -> <<"cs", "general">>
      [] OTHER                 -> <<"general", "cs">>

\* the resolution of a token list
Resolve(tokens) == ResolvedBy(FirstPlace(tokens, "cs"), FirstPlace(tokens, "general"))

\* C13 as stated: for every decision whose primary source is populated, the
\* resolver returns the resolution of the primary source followed by the
\* secondary sources in listed order, every token other than notes, cs,
\* documents, general and all contributing nothing.
C13_ResolvesByTable ==
    (pcRoute = "done" /\ route.primary_source # None) =>
        MapSourcesToRagKeys(route) = Resolve(<<route.primary_source>> \o route.secondary_sources)

\* the primary source as the resolver reads it: notes when it is null or empty
PrimaryOrNotes(r) == IF r.primary_source \in {None, ""} THEN "notes" ELSE r.primary_source

\* C13 amended: a null or empty primary source is resolved as notes; for the
\* rest the resolver returns the resolution by the table, primary first, then
\* the secondary sources in listed order, first occurrences kept, [cs] when
\* nothing resolved; the result is never empty, has no duplicates and holds
\* only cs and general.
C13_ResolvesByTableWithDefault ==
    pcRoute = "done" =>
        /\ MapSourcesToRagKeys(route) = Resolve(<<PrimaryOrNotes(route)>> \o route.secondary_sources)
        /\ MapSourcesToRagKeys(route) \in {<<"cs">>, <<"general">>, <<"cs", "general">>,
                                            <<"general", "cs">>}

\* a decision with an empty primary source and secondary sources that name
\* the general collection only, twice, was resolved
C13_Witness ==
    /\ pcRoute = "done" /\ Dispatched
    /\ route.primary_source = ""
    /\ route.secondary_sources = <<"documents", "general">>
    /\ MapSourcesToRagKeys(route) = <<"cs", "general">>

\* the snippets of the prompt a direct call returned
Included == unitRet.prompt.context

\* the rendered length of an included snippet: header, line end, text, line end
RenderedLen(item) == HeaderLen(item.idx, item) + 1 + TextLen(item.text) + 1

\* the total rendered length of the first n included snippets
RECURSIVE TotalRendered(_, _)
TotalRendered(ctx, n) ==
    IF n = 0 THEN 0 ELSE TotalRendered(ctx, n - 1) + RenderedLen(ctx[n])

\* C14: for every non-empty hit list and every max_context_chars,
\* build_prompt_from_hits includes a prefix of the hits in input order, each
\* snippet whole; it stops at the first hit whose snippet would overflow; and
\* the total rendered length of the included snippets is at most
\* max_context_chars.
C14_PrefixWithinBudget ==
    (unitRet.returned /\ unitCall.fn = "build_prompt_from_hits" /\ unitCall.hits # <<>>) =>
        /\ Len(Included) <= Len(unitCall.hits)
        /\ \A i \in 1..Len(Included) :
                /\ Included[i].id = unitCall.hits[i].id
                /\ Included[i].idx = i - 1
                /\ Included[i].text.core = unitCall.hits[i].text.core
        /\ TotalRendered(Included, Len(Included)) <= unitCall.max_context_chars
        /\ Len(Included) < Len(unitCall.hits) =>
                TotalRendered(Included, Len(Included))
                    + HeaderLen(Len(Included), unitCall.hits[Len(Included) + 1]) + 2
                    + unitCall.hits[Len(Included) + 1].text.core
                > unitCall.max_context_chars

\* two snippets were included and the third, which would overflow, was not
C14_Witness ==
    /\ unitRet.returned /\ unitCall.fn = "build_prompt_from_hits"
    /\ Len(unitCall.hits) = 3
    /\ Len(Included) = 2
    /\ TotalRendered(Included, 2) < unitCall.max_context_chars

\* the places in calls of the calls of one kind
CallsOf(kind) == {i \in 1..Len(calls) : calls[i].call = kind}

\* C15: for every decision dispatched to SUMMARIZE, whatever its sources, the
\* handler reads the cs collection, once and as a whole, reads no other
\* collection and issues no query, and returns sources = [].
C15_SummarizeFixedCollection ==
    state = "SUMMARIZE" =>
        /\ \A i \in 1..Len(calls) :
                "collection" \in DOMAIN calls[i] => calls[i].collection = CS_COLLECTION_NAME
        /\ Cardinality(CallsOf("get_all")) = 1
        /\ \A i \in CallsOf("query") : mode = "async" /\ calls[i].k = PrefetchK
        /\ pc = "done" => result.sources = <<>>

\* a summary was returned for a decision whose sources resolve to the general
\* collection alone
C15_Witness ==
    /\ state = "SUMMARIZE" /\ pc = "done"
    /\ route.primary_source = "emails"
    /\ route.secondary_sources = <<"documents">>
    /\ result.answer.kind = "reply"

\* the sender the stub answer must name
RequestedSender ==
    IF "sender" \in DOMAIN route.arguments THEN route.arguments["sender"]
    ELSE "(unknown sender)"

\* C16: for every decision dispatched to EMAIL_LATEST the handler returns the
\* fixed stub answer naming arguments["sender"], or "(unknown sender)" when no
\* sender is given, with sources = [], and calls neither the generation
\* backend nor the vector index (nor any mail adapter): the only calls of the
\* request are those of the classification and of the speculative retrieval.
C16_EmailStub ==
    state = "EMAIL_LATEST" =>
        /\ pc = "done"
        /\ result.answer = [kind |-> "email_latest stub", sender |-> RequestedSender]
        /\ result.sources = <<>>
        /\ \A i \in 1..Len(calls) :
                \/ calls[i].call \in {"ask_ollama", "groq"}
                \/ /\ mode = "async"
                   /\ calls[i] = [call |-> "query", collection |-> CS_COLLECTION_NAME,
                                  k |-> PrefetchK]

\* the stub answer was returned, in concurrent mode, for a decision that names
\* a sender
C16_Witness ==
    /\ state = "EMAIL_LATEST" /\ mode = "async" /\ http.status = 200
    /\ route.arguments = Alice
    /\ result.answer.sender = "Alice"

\* the backend wrote one JSON object and nothing else
IsCleanObject(out) ==
    /\ out.kind = "text" /\ Len(out.raw) = 3
    /\ out.raw[1] = LBrace /\ out.raw[2].t = "body" /\ out.raw[3] = RBrace

\* the same output with other values of reasoning and search_strategy
Twin(out) ==
    OllamaText(Clean(("reasoning" :> "because") @@ ("search_strategy" :> "semantic")
                     @@ out.raw[2].d))

\* route_query on the twin output agrees with route_query on the output: both
\* return, with decisions equal in every field that is not diagnostic
TwinRoutesAlike(twin) ==
    /\ (twin.exc = NoException) <=> (pcRoute = "done")
    /\ pcRoute = "done" =>
        /\ twin.decision.operation = route.operation
        /\ twin.decision.primary_source = route.primary_source
        /\ twin.decision.secondary_sources = route.secondary_sources
        /\ twin.decision.arguments = route.arguments
        /\ twin.decision.confidence = route.confidence

\* handle_prompt on the twin decision agrees with the request: same dispatch
\* state, same answer, same sources
TwinHandledAlike(d) ==
    /\ d.state = state
    /\ (d.exc = NoException) <=> (pc = "done")
    /\ pc = "done" => (d.result.answer = result.answer /\ d.result.sources = result.sources)

\* C17: reasoning and search_strategy never influence the outcome: a backend
\* output that differs from the one received only in these two fields is
\* routed and handled to the same dispatch state, answer and sources.
C17_DiagnosticsDoNotInfluence ==
    (~useGroq /\ IsCleanObject(ollamaOut)) =>
        /\ pcRoute \in {"done", "raised"} =>
                TwinRoutesAlike(RouteQuery(useGroq, groqOut, Twin(ollamaOut)))
        /\ (mode = "sync" /\ pc \in {"done", "failed"} /\ pcRoute = "done") =>
                TwinHandledAlike(HandlePromptDispatch(Message,
                    [route EXCEPT !.reasoning = "because", !.search_strategy = "semantic"],
                    genOut))

\* the queries of one collection with one result cap
QueriesOf(name, k) ==
    {i \in CallsOf("query") : calls[i].collection = name /\ calls[i].k = k}

\* the generation calls made through one client for one model
GenerationsOf(via, model) ==
    {i \in CallsOf("generate") : calls[i].via = via /\ calls[i].model = model}

Collections == {CS_COLLECTION_NAME, GENERAL_COLLECTION_NAME}

LastCalls(n) == SubSeq(calls, Len(calls) - n + 1, Len(calls))

\* the handler ran as the sequential handler h does, which knows of no
\* speculative result
RanAs(h) ==
    /\ (h.exc = NoException) <=> (pc = "done")
    /\ pc = "done" => result = h.result
    /\ Len(h.calls) <= Len(calls) /\ LastCalls(Len(h.calls)) = h.calls

\* C19: in the concurrent RAG_QA handler, when the resolved key list is
\* exactly [cs] and the speculative result is not empty, the speculative hits
\* are the sources and the context handed to prompt assembly, and the handler
\* issues no query; in every other case the speculative result is not used:
\* the handler retrieves and answers as the sequential handler does.
C19_PrefetchReuse ==
    (mode = "async" /\ state = "RAG_QA") =>
        IF MapSourcesToRagKeys(route) = <<"cs">> /\ prefetched # <<>>
        THEN /\ Cardinality(CallsOf("query")) = 1
             /\ pc = "done" =>
                    /\ result.sources = prefetched
                    /\ result.answer.to
                         = BuildOperationPrompt(Message, prefetched, route.operation)
        ELSE RanAs(HandleRagQa(Message, route, genOut))

\* the speculative hits, more than the handler's own query would return, were
\* returned as the sources
C19_Witness ==
    /\ mode = "async" /\ state = "RAG_QA" /\ pc = "done"
    /\ MapSourcesToRagKeys(route) = <<"cs">>
    /\ Len(prefetched) > HandlerK
    /\ result.sources = prefetched

\* the collection a resolved key names
CollectionOf(key) == IF key = "cs" THEN CS_COLLECTION_NAME ELSE GENERAL_COLLECTION_NAME

\* the hits of one resolved key: the nearest documents of its collection, at
\* most the per-collection cap
PerCollection(key) == HitsOf(key, Take(Collection(CollectionOf(key)), HandlerK))

\* the per-collection hit lists of the resolved keys, one or two, concatenated
\* in resolution order
Concatenation(keys) ==
    IF Len(keys) = 1 THEN PerCollection(keys[1])
    ELSE PerCollection(keys[1]) \o PerCollection(keys[2])

\* a resolved key of the decision names the collection
IsResolved(name) ==
    \E i \in 1..Len(MapSourcesToRagKeys(route)) :
        CollectionOf(MapSourcesToRagKeys(route)[i]) = name

\* the handler reuses the speculative result
Reuses == mode = "async" /\ MapSourcesToRagKeys(route) = <<"cs">> /\ prefetched # <<>>

Ascending(hits) == \A i \in 1..(Len(hits) - 1) : hits[i].score <= hits[i + 1].score

\* C21: the sources RAG_QA returns, which are the hits handed to prompt
\* assembly, are in ascending score order across the collections: the combined
\* list is sorted by score, lower first, before the cap of 5 is applied.
C21_CombinedSortedByScore ==
    (state = "RAG_QA" /\ pc = "done") =>
        /\ Ascending(result.sources)
        /\ ~Reuses =>
              result.sources
                  = Take(SortByScore(Concatenation(MapSourcesToRagKeys(route))), TotalCap)

\* a direct call of the function returned or raised
UnitReturned(fn) == unitRet.returned /\ unitCall.fn = fn

\* the batches summarize_collection makes of the collection
Batches == MakeBatches(csDocs, MaxCharsPerBatch)

\* a generation call of the summarizer for one model
SummarizerCall(model) == [call |-> "generate", via |-> "LLMService", model |-> model]

\* the one case without a merge: one batch, and the same model for both stages
SingleUnmerged == Len(Batches) = 1 /\ unitCall.batch_model = unitCall.final_model

\* C22: when summarize_collection returns for a collection that makes at least
\* one batch, it has made exactly one generation call per batch with the batch
\* model, followed by exactly one merge call with the final model over all the
\* batch summaries; except when there is exactly one batch and batch_model
\* equals final_model: then no merge call is made, and the answer is the
\* summary of that batch as the batch call returned it.
C22_OneCallPerBatchThenMerge ==
    (UnitReturned("summarize_collection") /\ unitRet.exc = NoException /\ Len(Batches) >= 1) =>
        /\ unitRet.calls[1].call = "get_all"
        /\ \A i \in 1..Len(Batches) :
                unitRet.calls[1 + i] = SummarizerCall(unitCall.batch_model)
        /\ IF SingleUnmerged
           THEN /\ Len(unitRet.calls) = 2
                /\ unitRet.text.kind = "reply" =>
                        /\ unitRet.text.to.template = "batch"
                        /\ unitRet.text.to.context = Batches[1]
                        /\ unitRet.text.model = unitCall.batch_model
           ELSE /\ Len(unitRet.calls) = Len(Batches) + 2
                /\ unitRet.calls[Len(Batches) + 2] = SummarizerCall(unitCall.final_model)
                /\ unitRet.text.kind = "reply" =>
                        /\ unitRet.text.to.template = "merge"
                        /\ unitRet.text.model = unitCall.final_model
                        /\ Len(unitRet.text.to.context) = Len(Batches)
                        /\ \A i \in 1..Len(Batches) :
                                unitRet.text.to.context[i].kind = "reply" =>
                                    unitRet.text.to.context[i].to.context = Batches[i]

\* the summary of the single batch of two chunks was returned unmerged, the
\* batch model being the final model
C22_Witness ==
    /\ UnitReturned("summarize_collection")
    /\ unitCall.batch_model = unitCall.final_model
    /\ Len(Batches) = 1 /\ Len(Batches[1]) = 2
    /\ Len(unitRet.calls) = 2
    /\ unitRet.text.kind = "reply" /\ unitRet.text.to.template = "batch"

\* the remote backend could not be reached, answered with a non-success
\* status, or answered with content that cannot be parsed
RemoteFailed ==
    \/ groqOut.kind \in {"conn_error", "status_error", "bad_json", "no_content"}
    \/ groqOut.kind = "content" /\ ~JsonLoads(groqOut.raw).ok

\* the remote backend answered with a record
RemoteParsed ==
    /\ groqOut.kind = "content"
    /\ JsonLoads(groqOut.raw).ok /\ JsonLoads(groqOut.raw).isDict

\* the decision is the deterministic fallback decision
IsFallbackDecision(r) == r.reasoning = FallbackDict.reasoning

\* C23: with the remote classification backend enabled, route_query calls the
\* remote backend first; whenever it is unreachable, answers with a
\* non-success status or with unparsable content, the local backend is called
\* exactly once, after it; the deterministic fallback decision is used only
\* after the local backend was called and its output failed to parse; and when
\* the remote call succeeds and parses, the local backend is never called.
C23_RemoteThenLocalThenFallback ==
    (useGroq /\ pcRoute \in {"done", "raised"}) =>
        /\ Cardinality(CallsOf("groq")) = 1
        /\ \A i \in CallsOf("ask_ollama") : \A j \in CallsOf("groq") : j < i
        /\ RemoteFailed => Cardinality(CallsOf("ask_ollama")) = 1
        /\ RemoteParsed => CallsOf("ask_ollama") = {}
        /\ (pcRoute = "done" /\ IsFallbackDecision(route)) =>
                /\ Cardinality(CallsOf("ask_ollama")) = 1
                /\ SafeParseJson(ollamaOut) = FallbackDict

\* the 1-based place of the first opening brace of a raw response
FirstOpen(raw) == Find(raw, LBrace) + 1

\* the places where the braces opened from the first opening brace on are
\* all closed again
ClosingPlaces(raw) ==
    {j \in FirstOpen(raw)..Len(raw) : Depth(raw, j) = Depth(raw, FirstOpen(raw) - 1)}

\* the first balanced {...} span of a raw response that has one
FirstBalancedSpan(raw) ==
    SubSeq(raw, FirstOpen(raw),
           CHOOSE j \in ClosingPlaces(raw) : \A i \in ClosingPlaces(raw) : j <= i)

\* the first balanced brace span of the raw response is a valid record
FirstSpanIsRecord(raw) ==
    /\ FirstOpen(raw) >= 1
    /\ ClosingPlaces(raw) # {}
    /\ IsJsonObject(FirstBalancedSpan(raw))

\* route_query ended as it ends on the response alone
RoutedAs(alone) ==
    /\ (alone.exc = NoException) <=> (pcRoute = "done")
    /\ pcRoute = "done" => route = alone.decision

\* C24: for every raw response of the local backend whose first balanced
\* brace span is a valid record, whatever text follows it (text with more
\* braces included), the decision is the one built from that first record,
\* not the fallback decision.
C24_FirstBalancedSpanParsed ==
    (/\ ~useGroq /\ ollamaOut.kind = "text"
     /\ pcRoute \in {"done", "raised"}
     /\ FirstSpanIsRecord(ollamaOut.raw)) =>
        RoutedAs(RouteQuery(FALSE, groqOut, OllamaText(FirstBalancedSpan(ollamaOut.raw))))

\* C25: under every interleaving of the requests in flight, the client is
\* constructed at most once in the process, and every query is issued on that
\* one client object.
C25_ClientConstructedOnce ==
    /\ built <= 1
    /\ Cardinality(used) <= 1
    /\ \A t \in Threads : threads[t].pc = "query" => threads[t].handle = client

\* the total length of the first n texts of a batch
RECURSIVE PartsLen(_, _)
PartsLen(batch, n) == IF n = 0 THEN 0 ELSE PartsLen(batch, n - 1) + TextLen(batch[n])

\* len("\n\n".join(parts)) of a batch that is not empty
BatchLen(batch) == PartsLen(batch, Len(batch)) + 2 * (Len(batch) - 1)

\* C26: for every chunk list and every max_chars_per_batch, chunks longer
\* than the bound included, no batch _make_batches returns is longer than
\* max_chars_per_batch.
C26_BatchesSizeBounded ==
    UnitReturned("_make_batches") =>
        \A i \in 1..Len(unitRet.batches) :
            BatchLen(unitRet.batches[i]) <= unitCall.max_chars_per_batch

\* the decision carries the fields of the parse-error fallback
HasFallbackFields(r) ==
    /\ r.operation = FallbackDict.operation
    /\ r.primary_source = FallbackDict.primary_source
    /\ r.confidence = FallbackConfidence

\* a query of the handler, as against the speculative one
IsHandlerQuery(c) == c.call = "query" /\ c.k = HandlerK

\* the collections the handler queried, in the order of its queries
RECURSIVE HandlerQueried(_)
HandlerQueried(n) ==
    IF n = 0 THEN <<>>
    ELSE IF IsHandlerQuery(calls[n]) THEN Append(HandlerQueried(n - 1), calls[n].collection)
    ELSE HandlerQueried(n - 1)

\* C27: the parse-error fallback decision (qa, all, confidence exactly 0.1) is
\* not low confidence: it is dispatched to RAG_QA, whose handler queries the
\* cs collection and then the general collection; LOW_CONFIDENCE_FALLBACK is
\* reached by the confidences strictly below 0.1 and by no other.
C27_FallbackDecisionReachesRagQa ==
    Dispatched =>
        /\ HasFallbackFields(route) =>
                /\ state = "RAG_QA"
                /\ MapSourcesToRagKeys(route) = <<"cs", "general">>
                /\ pc = "done" =>
                        HandlerQueried(Len(calls)) = <<CS_COLLECTION_NAME, GENERAL_COLLECTION_NAME>>
        /\ (state = "LOW_CONFIDENCE_FALLBACK") <=> (route.confidence < FallbackConfidence)

\* a response without a record was answered from both collections
C27_Witness ==
    /\ ollamaOut = OllamaText(<<Prose>>)
    /\ route = BuildDecision(FallbackDict)
    /\ state = "RAG_QA" /\ pc = "done"
    /\ Len(result.sources) = 2
    /\ result.sources[1].collection = "cs" /\ result.sources[2].collection = "general"

\* a chunk whose text is empty or white space only
IsBlank(doc) == doc.text.core = 0

\* the stripped texts of the non-blank chunks among the first n, in chunk order
RECURSIVE NonBlankTexts(_, _)
NonBlankTexts(docs, n) ==
    IF n = 0 THEN <<>>
    ELSE IF IsBlank(docs[n]) THEN NonBlankTexts(docs, n - 1)
    ELSE Append(NonBlankTexts(docs, n - 1), Text(docs[n].text.core, 0))

\* the texts of the first n batches, in batch order
RECURSIVE BatchTexts(_, _)
BatchTexts(batches, n) ==
    IF n = 0 THEN <<>> ELSE BatchTexts(batches, n - 1) \o batches[n]

\* C28: for every chunk list, the batches of _make_batches taken in order hold
\* the stripped text of every non-blank chunk exactly once, in chunk order;
\* no blank chunk is in a batch; and no batch is empty.
C28_BatchesLoseNothing ==
    UnitReturned("_make_batches") =>
        /\ BatchTexts(unitRet.batches, Len(unitRet.batches))
                = NonBlankTexts(unitCall.docs, Len(unitCall.docs))
        /\ \A i \in 1..Len(unitRet.batches) :
                /\ unitRet.batches[i] # <<>>
                /\ \A j \in 1..Len(unitRet.batches[i]) : TextLen(unitRet.batches[i][j]) > 0

\* three chunks, the second of white space only, gave two batches that hold
\* the first and the third
C28_Witness ==
    /\ UnitReturned("_make_batches")
    /\ Len(unitCall.docs) = 3
    /\ unitCall.docs[2].text = Text(0, 1)
    /\ unitRet.batches = <<<<Text(1200, 0)>>, <<Text(1300, 0)>>>>

\* the collection holds no chunk with text other than white space
NoNonBlankText == \A i \in 1..Len(csDocs) : IsBlank(csDocs[i])

\* the generation calls a direct call made
UnitGenerations == {i \in 1..Len(unitRet.calls) : unitRet.calls[i].call = "generate"}

\* C29: for an empty collection and for a collection whose chunks are all
\* blank, summarize_collection returns without a call of the batch model or
\* of the final model: the merge step is never invoked without a batch
\* summary.
C29_NoGenerationWithoutText ==
    (UnitReturned("summarize_collection") /\ NoNonBlankText) => UnitGenerations = {}

\* the prompt of the no-context template for a question
NoContextPrompt(question) ==
    [template |-> "no_context", question |-> question, context |-> <<>>]

\* C30 as stated: the context-bearing template is used only when at least one
\* snippet is included; when no hit fits within max_context_chars, the prompt
\* is the no-context template, as for an empty hit list.
C30_NoContextWhenNothingIncluded ==
    UnitReturned("build_prompt_from_hits") =>
        /\ unitRet.prompt.template = "context" => Len(Included) >= 1
        /\ Included = <<>> => unitRet.prompt = NoContextPrompt(unitCall.question)

\* C30 amended: the no-context template is used exactly when the hit list is
\* empty; for a hit list that is not empty the prompt is the context-bearing
\* template, also when no hit fits within max_context_chars: its context is
\* then empty.
C30_NoContextOnlyForEmptyHits ==
    UnitReturned("build_prompt_from_hits") =>
        /\ unitRet.prompt.question = unitCall.question
        /\ IF unitCall.hits = <<>>
           THEN unitRet.prompt = NoContextPrompt(unitCall.question)
           ELSE unitRet.prompt.template = "context"
        /\ (unitCall.hits # <<>>
            /\ SnippetLen(0, unitCall.hits[1]) > unitCall.max_context_chars) =>
                Included = <<>>

\* the first of two hits already overflowed, and the prompt returned is the
\* context-bearing template with no snippet
C30_Witness ==
    /\ UnitReturned("build_prompt_from_hits")
    /\ Len(unitCall.hits) = 2
    /\ SnippetLen(0, unitCall.hits[1]) > unitCall.max_context_chars
    /\ unitRet.prompt.template = "context"
    /\ Included = <<>>

====
